---- MODULE Spec2Model ----
(***************************************************************************)
(* openlivesync server: the per-connection dispatcher (connection.ts), the *)
(* room (room.ts), the room registry (room-manager.ts) and the chat store  *)
(* contract (storage/chat-storage.ts, storage/in-memory.ts); and the       *)
(* client session (client.ts).                                             *)
(*                                                                         *)
(* One action is one run-to-completion section of the JavaScript: a ws     *)
(* event handler up to its first unresolved await, or the continuation of  *)
(* an await.  A suspended dispatch is a record in `pending`.               *)
(***************************************************************************)
EXTENDS Integers, Sequences, FiniteSets, TLC

\* ------------------------------------------------------------------ bounds
NumConns == 2        \* connections attached to the server
MaxJoins == 1        \* join_room dispatches suspended at the same time
MaxChats == 2        \* send_chat dispatches suspended at the same time
MaxAppends == 2      \* appends the chat store accepts in one run
MaxTime == 3         \* clock ticks after start
MaxLimit == 2        \* largest history limit an operator configures
MaxIdentJoins == 2   \* join_room dispatches suspended together, identity runs
MaxSockets == 3      \* WebSockets one client session creates in one run
MaxStoreAppends == 3 \* appends made to the storage adapters called alone
MaxPage == 3         \* largest limit and offset asked of getHistory
MaxLink == 2         \* frames in flight in one direction of a connection

\* ------------------------------------------------------ program constants
PresenceThrottleMs == 2     \* options.presenceThrottleMs
DEFAULT_HISTORY_LIMIT == 2  \* server.ts and in-memory.ts, scaled down from 100
reconnectIntervalMs == 1    \* client.ts, scaled down from 1000
maxReconnectIntervalMs == 4 \* client.ts, scaled down from 30000
presenceThrottleMs == 2     \* client.ts, scaled down from 100

\* ------------------------------------------------------------ value sets
Null == "<null>"
Undef == "<undefined>"
Conns == 1..NumConns
RoomIds == {"", "A", "B"}
Docs == {"{}", "p1"}
Tokens == {"good", "bad"}
ClientNames == {"cli", "eve"}
ClientEmails == {"cli@x"}
Bodies == {"hi"}
Events == {"draw"}
Slots == 1..(MaxJoins + MaxChats)
StartTime == PresenceThrottleMs
Never == 0 - 1

VARIABLES
  closed,             \* Connection.closed
  currentRoomId,      \* Connection.currentRoomId
  ident,              \* Connection.userId / userName / userEmail / provider
  lastPresenceUpdate, \* Connection.lastPresenceUpdate
  appliedAt,          \* history: when Room.updatePresence last changed the
                      \* connection's entry (Never: not yet)
  registry,           \* RoomManager.rooms: does it map the room id
  connections,        \* Room.connections of the registry's Room, per room id
  store,              \* the chat store: room id -> messages, oldest first
  idCounter,          \* in-memory store idCounter
  table,              \* rows of the MySQL adapter's table, in insertion order
  pending,            \* suspended dispatches
  now,                \* Date.now()
  options,            \* chat.historyLimit of the server, historyLimit of the store,
                      \* and what onAuth resolved to for each connection
  sent,               \* frames handed to member handles by the last step
  lastOp              \* the last step taken

\* The client session of client.ts (createLiveSyncClient).
VARIABLES
  config,             \* reconnect enabled, getAuthToken given
  ws,                 \* the session's socket, NoSocket for null
  readyState,         \* readyState of every WebSocket the session created
  reconnectTimeoutId, \* 0 for null, else the delay the timer was set with
  nextReconnectMs,
  intentionalClose,
  pendingPresence,
  lastJoinIdentity,
  clientLastUpdate,   \* lastPresenceUpdate of the client
  state,              \* connectionStatus, currentRoomId, connectionId,
                      \* presence, chatMessages
  authCalls,          \* connect() calls suspended in `await getAuthToken()`
  attempts,           \* history: reconnect timers set since the last open
  disconnected,       \* history: disconnect() called, connect() not called since
  out,                \* frames the last step gave to ws.send
  clientOp            \* the last step of the session

clientVars == <<config, ws, readyState, reconnectTimeoutId, nextReconnectMs,
                intentionalClose, pendingPresence, lastJoinIdentity,
                clientLastUpdate, state, authCalls, attempts, disconnected,
                out, clientOp>>

serverVars == <<closed, currentRoomId, ident, lastPresenceUpdate, appliedAt,
                registry, connections, store, idCounter, pending, now, options,
                sent, lastOp, table>>

\* The WebSocket connection between the session and the server's connection 1.
VARIABLES
  link                \* frames in flight: up (session to server), down

vars == <<serverVars, clientVars, link>>

\* RoomOptions.historyLimit and the in-memory store's historyLimit.
HistoryLimit == options.historyLimit
StoreHistoryLimit == options.storeLimit

\* JavaScript truthiness of a string | null | undefined.
Truthy(s) == s # Null /\ s # Undef /\ s # ""

NoIdent == [userId |-> Undef, name |-> Undef, email |-> Undef, provider |-> Undef]
NoOp == [kind |-> "none"]
EmptyMap == [x \in {} |-> NoIdent]

\* ----------------------------------------------------------- Map helpers
Remove(m, c) == [x \in DOMAIN m \ {c} |-> m[x]]
Put(m, c, e) == [x \in DOMAIN m \cup {c} |-> IF x = c THEN e ELSE m[x]]

RECURSIVE SeqOf(_)
SeqOf(S) == IF S = {} THEN <<>>
            ELSE LET x == CHOOSE y \in S : \A z \in S : y <= z
                 IN <<x>> \o SeqOf(S \ {x})

\* ------------------------------------------------------------ messages
PresenceEntry(cid, e) ==
  [connectionId |-> cid, userId |-> e.userId, name |-> e.name,
   email |-> e.email, provider |-> e.provider, presence |-> e.presence]

RoomJoinedMsg(rid, cid, pmap, hist) ==
  [type |-> "room_joined", roomId |-> rid, connectionId |-> cid,
   presence |-> pmap, chatHistory |-> hist]
JoinedMsg(rid, entry) ==
  [type |-> "presence_updated", roomId |-> rid, joined |-> <<entry>>]
LeftMsg(rid, cid) ==
  [type |-> "presence_updated", roomId |-> rid, left |-> <<cid>>]
UpdatedMsg(rid, entry) ==
  [type |-> "presence_updated", roomId |-> rid, updated |-> <<entry>>]
EventRelayMsg(rid, cid, uid, ev) ==
  [type |-> "broadcast_event", roomId |-> rid, connectionId |-> cid,
   userId |-> uid, event |-> ev]
ChatMsg(rid, cid, uid, body) ==
  [type |-> "chat_message", roomId |-> rid, connectionId |-> cid,
   userId |-> uid, message |-> body]
ErrorMsg(code) == [type |-> "error", code |-> code]

\* ws.readyState = ws.OPEN: the close event fires as the socket leaves OPEN.
WsOpen(c) == ~closed[c]

\* handle.send -> Connection.send -> send(ws, msg): the frame is handed to the
\* connection `to`, and reaches the wire only when its socket is OPEN.
Send(c, msg) == [to |-> c, wire |-> WsOpen(c), msg |-> msg]

\* Faulty variant of broadcastExcept: the `!==` test left out.
BroadcastExceptNobody(m, except) == DOMAIN m

\* Room.broadcast / Room.broadcastExcept over a member map m.
BroadcastTargets(m) == DOMAIN m
BroadcastExceptTargets(m, except) == {x \in DOMAIN m : x # except}
Broadcast(m, msg) ==
  LET t == SeqOf(BroadcastTargets(m)) IN [k \in 1..Len(t) |-> Send(t[k], msg)]
BroadcastExcept(m, except, msg) ==
  LET t == SeqOf(BroadcastExceptTargets(m, except))
  IN [k \in 1..Len(t) |-> Send(t[k], msg)]


\* Faulty variant of handleMessage: the closed flag not tested.
DiscardNever(c) == FALSE

\* handleMessage: `if (this.closed) return`.
Discarded(c) == closed[c]

\* ------------------------------------------------- room and registry state
\* S is the record [registry, connections, pend] threaded through the
\* synchronous calls of one handler.
\*
\* A suspended dispatch holds its Room instance (`this` of room.join or
\* room.sendChat).  While the registry maps the instance, its member map is
\* connections[roomId].  Once removeIfEmpty has deleted it from the registry
\* (orphan = TRUE) no call reaches it any more: join, leave and
\* updatePresence are only called on registry.get(...), so its member map
\* stays what it was at the deletion, kept in omap.
ServerState == [registry |-> registry, connections |-> connections,
                pend |-> pending]

HasInst(op) == op.kind \in {"history", "append"}

\* The entry object of a suspended join stops being the one in the member map
\* once c is deleted from, or set again in, that Room.
Unlink(pend, c, rid) ==
  [s \in Slots |->
     IF pend[s].kind = "history" /\ pend[s].conn = c /\ pend[s].roomId = rid
        /\ ~pend[s].orphan
     THEN [pend[s] EXCEPT !.live = FALSE] ELSE pend[s]]

\* Room.leave(connectionId): delete, then broadcast `left` to who remains.
RoomLeave(S, rid, c) ==
  LET m == Remove(S.connections[rid], c)
  IN [S |-> [S EXCEPT !.connections[rid] = m, !.pend = Unlink(@, c, rid)],
      frames |-> Broadcast(m, LeftMsg(rid, c))]

\* Faulty variant of removeIfEmpty: the member count not tested.
RemovableAlways(S, rid) == S.registry[rid]

\* `room && room.connectionCount === 0`
Removable(S, rid) ==
  S.registry[rid] /\ Cardinality(DOMAIN S.connections[rid]) = 0

\* RoomManager.removeIfEmpty(roomId).
RemoveIfEmpty(S, rid) ==
  IF Removable(S, rid)
  THEN [registry |-> [S.registry EXCEPT ![rid] = FALSE],
        connections |-> [S.connections EXCEPT ![rid] = EmptyMap],
        pend |-> [s \in Slots |->
                    IF HasInst(S.pend[s]) /\ S.pend[s].roomId = rid
                       /\ ~S.pend[s].orphan
                    THEN [S.pend[s] EXCEPT !.orphan = TRUE,
                                           !.omap = S.connections[rid]]
                    ELSE S.pend[s]]]
  ELSE S

\* RoomManager.getOrCreate(roomId): a new, empty Room when absent.
GetOrCreate(S, rid) ==
  IF S.registry[rid] THEN S
  ELSE [S EXCEPT !.registry[rid] = TRUE, !.connections[rid] = EmptyMap]

\* `if (this.currentRoomId)` guarding the leave of the current room.
InARoom(cur) == Truthy(cur)

\* connection.ts: room = get(cur); if (room) room.leave(id); removeIfEmpty(cur)
LeaveCurrent(S, c, cur) ==
  LET L == IF S.registry[cur] THEN RoomLeave(S, cur, c)
           ELSE [S |-> S, frames |-> <<>>]
  IN [S |-> RemoveIfEmpty(L.S, cur), frames |-> L.frames]

\* The member map of the Room instance a suspended dispatch holds.
OpMembers(op) == IF op.orphan THEN op.omap ELSE connections[op.roomId]

FreeSlots(pend) == {s \in Slots : pend[s].kind = "none"}
FirstFree(pend) == CHOOSE s \in FreeSlots(pend) : \A t \in FreeSlots(pend) : s <= t
SuspendedJoins(pend) == {s \in Slots : pend[s].kind \in {"decode", "history"}}
SuspendedChats(pend) == {s \in Slots : pend[s].kind = "append"}

SetServer(S) ==
  /\ registry' = S.registry
  /\ connections' = S.connections
  /\ pending' = S.pend

\* ------------------------------------------------------------- identity
\* decodeAccessToken: the normalized claims, or Null when decoding fails.
Decoded(token) ==
  IF token = "good"
  THEN [sub |-> "sub1", name |-> "Tok", email |-> "tok@x", provider |-> "google"]
  ELSE Null
DecodeOk(token) == token = "good"

\* `if (name && this.userName === undefined) this.userName = name`, and email.
Fallback(id, name, email) ==
  [id EXCEPT !.name = IF Truthy(name) /\ @ = Undef THEN name ELSE @,
             !.email = IF Truthy(email) /\ @ = Undef THEN email ELSE @]

\* connection.ts 120: the join suspends in decodeAccessToken.
NeedsDecode(id, token) == Truthy(token) /\ id.userId = Undef

\* connection.ts 132-136: the branch taken without awaiting.
IdentNoDecode(id, token, name, email) ==
  IF ~Truthy(token) /\ (Truthy(name) \/ Truthy(email))
  THEN Fallback(id, name, email) ELSE id

\* connection.ts 122-131: after the await.
IdentAfterDecode(id, token, name, email) ==
  IF DecodeOk(token)
  THEN LET d == Decoded(token)
       IN [userId |-> d.sub, name |-> d.name, email |-> d.email,
           provider |-> d.provider]
  ELSE IF Truthy(name) \/ Truthy(email) THEN Fallback(id, name, email) ELSE id

\* ---------------------------------------------------------- chat store
\* Faulty variant of append: on overflow the newest messages are dropped.
StoreAppendKeepOldest(list, m) ==
  SubSeq(Append(list, m), 1, IF Len(list) + 1 > options.storeLimit
                              THEN options.storeLimit ELSE Len(list) + 1)

\* in-memory append: push, then keep the last historyLimit messages.
StoreAppend(list, m) ==
  LET l == Append(list, m)
  IN IF Len(l) > StoreHistoryLimit
     THEN SubSeq(l, Len(l) - StoreHistoryLimit + 1, Len(l))
     ELSE l

Max(a, b) == IF a > b THEN a ELSE b
Min(a, b) == IF a < b THEN a ELSE b

\* Faulty variant of getHistory: the page counted from the newest message.
GetHistoryNewest(list, limit, offset) ==
  SubSeq(list, Max(1, Len(list) - offset - limit + 1), Len(list) - offset)

\* in-memory getHistory: list.slice(start, start + limit).
GetHistory(list, limit, offset) ==
  LET start == Max(0, offset)
  IN SubSeq(list, start + 1, Min(Len(list), start + limit))

\* mysql.ts 59-74: INSERT of one row; the table keeps every row.
Insert(rows, r) == Append(rows, r)

\* The row of rows with the greatest created_at.
RECURSIVE MaxCreatedAt(_)
MaxCreatedAt(rows) ==
  IF Len(rows) = 1 THEN 1
  ELSE LET k == MaxCreatedAt(Tail(rows)) + 1
       IN IF rows[1].createdAt >= rows[k].createdAt THEN 1 ELSE k

\* A sequence without its k-th element.
Without(rows, k) == SubSeq(rows, 1, k - 1) \o SubSeq(rows, k + 1, Len(rows))

\* mysql.ts 94: WHERE room_id = ?
RECURSIVE WhereRoom(_, _)
WhereRoom(rows, rid) ==
  IF rows = <<>> THEN <<>>
  ELSE IF Head(rows).roomId = rid
       THEN <<Head(rows)>> \o WhereRoom(Tail(rows), rid)
       ELSE WhereRoom(Tail(rows), rid)

\* mysql.ts 95: ORDER BY created_at DESC
RECURSIVE OrderByCreatedAtDesc(_)
OrderByCreatedAtDesc(rows) ==
  IF rows = <<>> THEN <<>>
  ELSE LET k == MaxCreatedAt(rows)
       IN <<rows[k]>> \o OrderByCreatedAtDesc(Without(rows, k))

\* mysql.ts 96: LIMIT ? OFFSET ?
LimitOffset(rows, limit, offset) ==
  SubSeq(rows, offset + 1, Min(Len(rows), offset + limit))

\* mysql.ts 100-110: .reverse()
Reverse(rows) == [i \in 1..Len(rows) |-> rows[Len(rows) + 1 - i]]

\* mysql.ts 76-111: getHistory of the MySQL adapter.
MySQLGetHistory(rows, rid, limit, offset) ==
  Reverse(LimitOffset(OrderByCreatedAtDesc(WhereRoom(rows, rid)),
                      limit, offset))

\* ------------------------------------------------------------------ Init
\* server.ts 66: authResult = {} when the server has no onAuth.
NoUser == NoIdent
\* A UserInfo with every field, as createTokenAuth returns it.
FullUser == [userId |-> "u1", name |-> "Ann", email |-> "ann@x",
             provider |-> "google"]
AuthResults == {NoUser, FullUser}
NoAuth == [c \in Conns |-> NoUser]

\* server.ts 70-75 and the Connection constructor: what of the onAuth result
\* becomes the connection's identity.
ConnectionIdent(u) ==
  [userId |-> u.userId, name |-> Undef, email |-> Undef, provider |-> Undef]

InitCore ==
  /\ closed = [c \in Conns |-> FALSE]
  /\ currentRoomId = [c \in Conns |-> Null]
  /\ lastPresenceUpdate = [c \in Conns |-> 0]
  /\ appliedAt = [c \in Conns |-> Never]
  /\ registry = [r \in RoomIds |-> FALSE]
  /\ connections = [r \in RoomIds |-> EmptyMap]
  /\ store = [r \in RoomIds |-> <<>>]
  /\ table = <<>>
  /\ link = [up |-> <<>>, down |-> <<>>, left |-> FALSE]
  /\ idCounter = 0
  /\ pending = [s \in Slots |-> NoOp]
  /\ now = StartTime
  /\ sent = <<>>
  /\ lastOp = [op |-> "init", conn |-> 0]

\* createLiveSyncClient: the session before connect().
NoSocket == 0
NoConn == 0
Sockets == 1..MaxSockets
EmptyPresence == EmptyMap
\* `identity ?? null`: every later read is `identity?.field`, undefined for null.
NoIdentity == [accessToken |-> Undef, name |-> Undef, email |-> Undef]

InitClientState ==
  /\ ws = NoSocket
  /\ readyState = [k \in Sockets |-> "none"]
  /\ reconnectTimeoutId = 0
  /\ nextReconnectMs = reconnectIntervalMs
  /\ intentionalClose = FALSE
  /\ pendingPresence = Null
  /\ lastJoinIdentity = NoIdentity
  /\ clientLastUpdate = 0
  /\ state = [connectionStatus |-> "closed", currentRoomId |-> Null,
              connectionId |-> NoConn, presence |-> EmptyPresence,
              chatMessages |-> <<>>]
  /\ authCalls = 0
  /\ attempts = 0
  /\ disconnected = FALSE
  /\ out = <<>>
  /\ clientOp = [op |-> "init"]

\* A session with the default configuration.
InitClient ==
  /\ InitClientState
  /\ config = [reconnect |-> TRUE, getAuthToken |-> FALSE]

InitServer ==
  /\ InitClient
  /\ InitCore
  /\ ident = [c \in Conns |-> ConnectionIdent(NoUser)]

\* createRoomManager without chat.storage: the in-memory store is created
\* with the server's chat.historyLimit.
Init ==
  /\ InitServer
  /\ options = [historyLimit |-> DEFAULT_HISTORY_LIMIT,
                storeLimit |-> DEFAULT_HISTORY_LIMIT, authResult |-> NoAuth]

\* createRoomManager with chat.storage = createInMemoryChatStorage({historyLimit})
\* and a chat.historyLimit of its own.
InitOptions ==
  /\ InitServer
  /\ options \in [historyLimit : 1..MaxLimit, storeLimit : 1..MaxLimit,
                   authResult : {NoAuth}]

\* A session of any configuration, beside an idle server.
InitSession ==
  /\ InitClientState
  /\ config \in [reconnect : BOOLEAN, getAuthToken : BOOLEAN]
  /\ InitCore
  /\ ident = [c \in Conns |-> ConnectionIdent(NoUser)]
  /\ options = [historyLimit |-> DEFAULT_HISTORY_LIMIT,
                storeLimit |-> DEFAULT_HISTORY_LIMIT, authResult |-> NoAuth]

\* A server with onAuth: each connection is constructed from what onAuth
\* resolved to for its upgrade request.
InitAuth ==
  /\ InitClient
  /\ InitCore
  /\ options \in [historyLimit : {DEFAULT_HISTORY_LIMIT},
                   storeLimit : {DEFAULT_HISTORY_LIMIT},
                   authResult : [Conns -> AuthResults]]
  /\ ident = [c \in Conns |-> ConnectionIdent(options.authResult[c])]

\* ------------------------------------------------------- join_room frame
PresenceMapOf(m) == [x \in DOMAIN m |-> PresenceEntry(x, m[x])]

\* room.ts 57-61: the entry set in the member map.
JoinEntry(id, doc) ==
  [userId |-> id.userId, name |-> id.name, email |-> id.email,
   provider |-> id.provider, presence |-> doc]

\* room.ts 57-83, join up to `await getHistory`: connections.set, snapshot of
\* the presence map, call of the store.  getHistory reads the log when it is
\* called (in-memory.ts has no await before the slice); hok = FALSE is a
\* store that rejects, caught as [].
\* (from: the connection's current room before the frame, kept for reference.)
RoomJoin(S, rid, c, id, doc, hok, from) ==
  LET entry == JoinEntry(id, doc)
      m == Put(S.connections[rid], c, entry)
      op == [kind |-> "history", conn |-> c, roomId |-> rid, orphan |-> FALSE,
             from |-> from,
             omap |-> EmptyMap, handle |-> id, pmap |-> PresenceMapOf(m),
             entry |-> entry, live |-> TRUE, histOk |-> hok,
             hist |-> IF hok THEN GetHistory(store[rid], HistoryLimit, 0)
                      ELSE <<>>]
      p == Unlink(S.pend, c, rid)
  IN [S EXCEPT !.connections[rid] = m, !.pend = [p EXCEPT ![FirstFree(p)] = op]]

\* connection.ts 137-153: leave the current room, set currentRoomId,
\* getOrCreate, room.join.  S.pend already has a slot free.
JoinCore(c, rid, doc, id, hok, S, opname) ==
  LET cur == currentRoomId[c]
      L == IF InARoom(cur) THEN LeaveCurrent(S, c, cur)
           ELSE [S |-> S, frames |-> <<>>]
  IN /\ currentRoomId' = [currentRoomId EXCEPT ![c] = rid]
     /\ ident' = [ident EXCEPT ![c] = id]
     /\ SetServer(RoomJoin(GetOrCreate(L.S, rid), rid, c, id, doc, hok, cur))
     /\ sent' = L.frames
     /\ lastOp' = [op |-> opname, conn |-> c, room |-> rid, from |-> cur,
                   doc |-> doc]
     /\ UNCHANGED <<clientVars, table, options, closed, lastPresenceUpdate, appliedAt, store, idCounter, now>>

\* handleMessage and dispatch for a join_room frame.
\* (had: the identity when the frame arrived, kept for reference.)
JoinRoomFrame(c, rid, doc, token, name, email, hok) ==
  /\ ~Discarded(c)
  /\ IF NeedsDecode(ident[c], token)
     THEN /\ pending' = [pending EXCEPT ![FirstFree(pending)] =
                [kind |-> "decode", conn |-> c, roomId |-> rid, presence |-> doc,
                 token |-> token, name |-> name, email |-> email,
                 had |-> ident[c]]]
          /\ sent' = <<>>
          /\ lastOp' = [op |-> "join_decode", conn |-> c, room |-> rid,
                        from |-> currentRoomId[c]]
          /\ UNCHANGED <<clientVars, table, options, closed, currentRoomId, ident, lastPresenceUpdate, appliedAt,
                         registry, connections, store, idCounter, now>>
     ELSE JoinCore(c, rid, doc, IdentNoDecode(ident[c], token, name, email),
                   hok, ServerState, "join")

\* A join_room frame while fewer than MaxJoins joins are suspended.
JoinRoom(c, rid, doc, token, name, email, hok) ==
  /\ Cardinality(SuspendedJoins(pending)) < MaxJoins
  /\ JoinRoomFrame(c, rid, doc, token, name, email, hok)

\* The continuation of `await decodeAccessToken(...)`; it runs whether or not
\* the connection has closed meanwhile.
JoinAfterDecode(s, hok) ==
  /\ pending[s].kind = "decode"
  /\ LET op == pending[s]
     IN JoinCore(op.conn, op.roomId, op.presence,
                 IdentAfterDecode(ident[op.conn], op.token, op.name, op.email),
                 hok, [ServerState EXCEPT !.pend[s] = NoOp], "join_decoded")

\* room.ts 85-110: the continuation of `await getHistory`.
JoinFrames(op, m) ==
  <<Send(op.conn, RoomJoinedMsg(op.roomId, op.conn, op.pmap, op.hist))>>
  \o BroadcastExcept(m, op.conn,
                     JoinedMsg(op.roomId, PresenceEntry(op.conn, op.entry)))

JoinResume(s) ==
  /\ pending[s].kind = "history"
  /\ sent' = JoinFrames(pending[s], OpMembers(pending[s]))
  /\ pending' = [pending EXCEPT ![s] = NoOp]
  /\ lastOp' = [op |-> "join_resume", conn |-> pending[s].conn, rec |-> pending[s]]
  /\ UNCHANGED <<clientVars, table, options, closed, currentRoomId, ident, lastPresenceUpdate, appliedAt, registry,
                 connections, store, idCounter, now>>

\* room.ts 85-93 with connection.ts 105-113: handle.send throws while the
\* room_joined is serialized (JSON.stringify of what the store returned), the
\* join rejects and the dispatcher answers with an error.
JoinFails(s) ==
  /\ pending[s].kind = "history"
  /\ sent' = <<Send(pending[s].conn, ErrorMsg("SERVER_ERROR"))>>
  /\ pending' = [pending EXCEPT ![s] = NoOp]
  /\ lastOp' = [op |-> "join_failed", conn |-> pending[s].conn, rec |-> pending[s]]
  /\ UNCHANGED <<clientVars, table, options, closed, currentRoomId, ident, lastPresenceUpdate, appliedAt,
                 registry, connections, store, idCounter, now>>

\* ------------------------------------------------------ leave_room frame
\* rid is payload.roomId, Undef when the frame carries none.
LeaveTarget(c, rid) == IF rid = Undef \/ rid = Null THEN currentRoomId[c] ELSE rid
\* Faulty variant of leave_room: the named room not compared with the current.
LeaveAppliesNamed(c, rid) == Truthy(LeaveTarget(c, rid))

\* `if (roomId && this.currentRoomId === roomId)`
LeaveApplies(c, rid) ==
  Truthy(LeaveTarget(c, rid)) /\ currentRoomId[c] = LeaveTarget(c, rid)

LeaveRoom(c, rid) ==
  /\ ~Discarded(c)
  /\ IF LeaveApplies(c, rid)
     THEN LET L == LeaveCurrent(ServerState, c, LeaveTarget(c, rid))
          IN /\ SetServer(L.S)
             /\ sent' = L.frames
             /\ currentRoomId' = [currentRoomId EXCEPT ![c] = Null]
     ELSE /\ sent' = <<>>
          /\ UNCHANGED <<currentRoomId, registry, connections, pending>>
  /\ lastOp' = [op |-> "leave", conn |-> c, room |-> rid,
                from |-> currentRoomId[c]]
  /\ UNCHANGED <<clientVars, table, options, closed, ident, lastPresenceUpdate, appliedAt, store, idCounter, now>>

\* Faulty variants of the throttle test: no test at all; window one tick short.
ThrottleOff(c) == FALSE
ThrottleOffByOne(c) == now - lastPresenceUpdate[c] < PresenceThrottleMs - 1

\* --------------------------------------------------- update_presence frame
Throttled(c) == now - lastPresenceUpdate[c] < PresenceThrottleMs

\* connection.ts: the Room a frame of c is forwarded to, Null when none:
\* `if (!this.currentRoomId) return; room = get(currentRoomId); if (room) ...`
TargetRoom(c) ==
  IF InARoom(currentRoomId[c]) /\ registry[currentRoomId[c]]
  THEN currentRoomId[c] ELSE Null

\* Room.updatePresence: mutate the entry, tell the others.
RoomUpdatePresence(rid, c, doc) ==
  IF c \in DOMAIN connections[rid]
  THEN LET e == [connections[rid][c] EXCEPT !.presence = doc]
       IN [m |-> Put(connections[rid], c, e), hit |-> TRUE,
           frames |-> BroadcastExcept(connections[rid], c,
                        UpdatedMsg(rid, PresenceEntry(c, e)))]
  ELSE [m |-> connections[rid], hit |-> FALSE, frames |-> <<>>]

\* conn.presence = {...}: the entry object a suspended join of c holds is the
\* same object while it is still the one in the member map.
Relink(pend, c, rid, doc) ==
  [s \in Slots |->
     IF pend[s].kind = "history" /\ pend[s].conn = c /\ pend[s].roomId = rid
        /\ ~pend[s].orphan /\ pend[s].live
     THEN [pend[s] EXCEPT !.entry.presence = doc] ELSE pend[s]]

UpdatePresence(c, doc) ==
  /\ ~Discarded(c)
  /\ IF Throttled(c)
     THEN /\ sent' = <<>>
          /\ lastOp' = [op |-> "update_dropped", conn |-> c, doc |-> doc]
          /\ UNCHANGED <<lastPresenceUpdate, appliedAt, connections, pending>>
     ELSE /\ lastPresenceUpdate' = [lastPresenceUpdate EXCEPT ![c] = now]
          /\ LET rid == TargetRoom(c)
             IN IF rid # Null
                THEN LET U == RoomUpdatePresence(rid, c, doc)
                     IN /\ connections' = [connections EXCEPT ![rid] = U.m]
                        /\ pending' = IF U.hit THEN Relink(pending, c, rid, doc)
                                      ELSE pending
                        /\ appliedAt' = IF U.hit
                                        THEN [appliedAt EXCEPT ![c] = now]
                                        ELSE appliedAt
                        /\ sent' = U.frames
                        /\ lastOp' = [op |-> "update", conn |-> c, doc |-> doc,
                                      room |-> rid, hit |-> U.hit]
                ELSE /\ sent' = <<>>
                     /\ lastOp' = [op |-> "update", conn |-> c, doc |-> doc,
                                   room |-> Null, hit |-> FALSE]
                     /\ UNCHANGED <<connections, pending, appliedAt>>
  /\ UNCHANGED <<clientVars, table, options, closed, currentRoomId, ident, registry, store, idCounter, now>>

\* --------------------------------------------------- broadcast_event frame
BroadcastEvent(c, ev) ==
  /\ ~Discarded(c)
  /\ LET rid == TargetRoom(c)
     IN /\ sent' = IF rid # Null
                   THEN BroadcastExcept(connections[rid], c,
                          EventRelayMsg(rid, c, ident[c].userId, ev))
                   ELSE <<>>
        /\ lastOp' = [op |-> "event", conn |-> c, room |-> rid]
  /\ UNCHANGED <<clientVars, table, options, closed, currentRoomId, ident, lastPresenceUpdate, appliedAt, registry,
                 connections, store, idCounter, pending, now>>

\* -------------------------------------------------------- send_chat frame
\* connection.ts 188-200 and room.ts sendChat up to `await append`.
SendChat(c, body) ==
  /\ ~Discarded(c)
  /\ Cardinality(SuspendedChats(pending)) < MaxChats
  /\ idCounter + Cardinality({s \in Slots : pending[s].kind = "append"
                                            /\ pending[s].stage = "calling"})
       < MaxAppends
  /\ LET rid == TargetRoom(c)
     IN /\ pending' = IF rid # Null
                      THEN [pending EXCEPT ![FirstFree(pending)] =
                              [kind |-> "append", conn |-> c, roomId |-> rid,
                               orphan |-> FALSE, omap |-> EmptyMap,
                               userId |-> ident[c].userId,
                               message |-> body, stage |-> "calling", mid |-> 0]]
                      ELSE pending
        /\ lastOp' = [op |-> "chat", conn |-> c, room |-> rid]
  /\ sent' = <<>>
  /\ UNCHANGED <<clientVars, table, options, closed, currentRoomId, ident, lastPresenceUpdate, appliedAt, registry,
                 connections, store, idCounter, now>>

\* The store performs the append of a suspended send_chat, or rejects it.
AppendSettle(s, ok) ==
  /\ pending[s].kind = "append"
  /\ pending[s].stage = "calling"
  /\ LET op == pending[s]
     IN IF ok
        THEN /\ idCounter' = idCounter + 1
             /\ store' = [store EXCEPT ![op.roomId] =
                            StoreAppend(@, [id |-> idCounter + 1,
                                            roomId |-> op.roomId,
                                            connectionId |-> op.conn,
                                            userId |-> op.userId,
                                            message |-> op.message])]
             /\ pending' = [pending EXCEPT ![s].stage = "ok",
                                           ![s].mid = idCounter + 1]
        ELSE /\ pending' = [pending EXCEPT ![s].stage = "failed"]
             /\ UNCHANGED <<store, idCounter>>
  /\ sent' = <<>>
  /\ lastOp' = [op |-> "append_settle", conn |-> pending[s].conn, ok |-> ok]
  /\ UNCHANGED <<clientVars, table, options, closed, currentRoomId, ident, lastPresenceUpdate, appliedAt, registry,
                 connections, now>>

\* Faulty variant of sendChat: the rejection of append swallowed.
ChatFramesAlways(op, m) ==
  Broadcast(m, ChatMsg(op.roomId, op.conn, op.userId, op.message))

\* room.ts 181-191 after a fulfilled append; connection.ts 105-113 after a
\* rejected one.
ChatFrames(op, m) ==
  IF op.stage = "failed"
  THEN <<Send(op.conn, ErrorMsg("SERVER_ERROR"))>>
  ELSE Broadcast(m, ChatMsg(op.roomId, op.conn, op.userId, op.message))

\* Faulty variant of sendChat: the append not awaited.
AppendNotAwaited(op) == TRUE

\* `await this.chatStorage.append(...)`: the continuation waits for the store.
AppendReturned(op) == op.stage # "calling"

ChatResume(s) ==
  /\ pending[s].kind = "append"
  /\ AppendReturned(pending[s])
  /\ sent' = ChatFrames(pending[s], OpMembers(pending[s]))
  /\ pending' = [pending EXCEPT ![s] = NoOp]
  /\ lastOp' = [op |-> "chat_resume", conn |-> pending[s].conn, rec |-> pending[s]]
  /\ UNCHANGED <<clientVars, table, options, closed, currentRoomId, ident, lastPresenceUpdate, appliedAt, registry,
                 connections, store, idCounter, now>>

\* ------------------------------------------------------- malformed frames
\* A raw frame: is it JSON text, and the `type` of the parsed value (Undef
\* when the value is not an object or has no type).
ClientTypes == {"join_room", "leave_room", "update_presence",
                "broadcast_event", "send_chat"}
Frames == [json : BOOLEAN, type : ClientTypes \cup {Undef, "bogus"}]

\* Faulty variant: every rejected frame reported as INVALID_MESSAGE.
FrameErrorCodeOne(f) == "INVALID_MESSAGE"

isClientMessage(f) == f.type \in ClientTypes

\* handleMessage 87-104: JSON.parse throws, else isClientMessage fails.
Rejected(f) == ~f.json \/ ~isClientMessage(f)
FrameErrorCode(f) == IF ~f.json THEN "INVALID_JSON" ELSE "INVALID_MESSAGE"

InvalidFrame(c, f) ==
  /\ ~Discarded(c)
  /\ Rejected(f)
  /\ sent' = <<Send(c, ErrorMsg(FrameErrorCode(f)))>>
  /\ lastOp' = [op |-> "invalid", conn |-> c, frame |-> f]
  /\ UNCHANGED <<clientVars, table, options, closed, currentRoomId, ident, lastPresenceUpdate, appliedAt, registry,
                 connections, store, idCounter, pending, now>>

\* connection.ts 86: any frame after the close event.
DiscardAfterClose(c) ==
  /\ Discarded(c)
  /\ sent' = <<>>
  /\ lastOp' = [op |-> "discard", conn |-> c]
  /\ UNCHANGED <<clientVars, table, options, closed, currentRoomId, ident, lastPresenceUpdate, appliedAt, registry,
                 connections, store, idCounter, pending, now>>

\* ------------------------------------------------------------------ close
\* connection.ts 204-211.
HandleCloseBody(c, opname) ==
  /\ closed' = [closed EXCEPT ![c] = TRUE]
  /\ LET cur == currentRoomId[c]
     IN IF InARoom(cur)
        THEN LET L == LeaveCurrent(ServerState, c, cur)
             IN SetServer(L.S) /\ sent' = L.frames
        ELSE /\ sent' = <<>>
             /\ UNCHANGED <<registry, connections, pending>>
  /\ lastOp' = [op |-> opname, conn |-> c, from |-> currentRoomId[c]]
  /\ UNCHANGED <<clientVars, table, options, currentRoomId, ident, lastPresenceUpdate, appliedAt, store,
                 idCounter, now>>

\* ws emits `close` once per socket.
HandleClose(c) == ~closed[c] /\ HandleCloseBody(c, "close")

\* The close listener run a second time for the same connection.
HandleCloseAgain(c) == closed[c] /\ HandleCloseBody(c, "close_again")

\* ------------------------------------------------------------------ clock
Tick ==
  /\ now < StartTime + MaxTime
  /\ now' = now + 1
  /\ sent' = <<>>
  /\ lastOp' = [op |-> "tick", conn |-> 0]
  /\ UNCHANGED <<clientVars, table, options, closed, currentRoomId, ident, lastPresenceUpdate, appliedAt, registry,
                 connections, store, idCounter, pending>>


\* ------------------------------------------------ storage adapters alone
\* ChatStorage.append called on the in-memory store and on the MySQL adapter
\* with the same input; Date.now() of the call is the counter of appends.
append(rid, c, body) ==
  /\ idCounter < MaxStoreAppends
  /\ idCounter' = idCounter + 1
  /\ store' = [store EXCEPT ![rid] =
                 StoreAppend(@, [id |-> idCounter + 1, roomId |-> rid,
                                 connectionId |-> c, userId |-> Undef,
                                 message |-> body])]
  /\ table' = Insert(table, [createdAt |-> idCounter + 1, roomId |-> rid,
                              connectionId |-> c, userId |-> Undef,
                              message |-> body])
  /\ sent' = <<>>
  /\ lastOp' = [op |-> "append", conn |-> c, room |-> rid]
  /\ UNCHANGED <<clientVars, options, closed, currentRoomId, ident,
                 lastPresenceUpdate, appliedAt, registry, connections,
                 pending, now>>

\* ChatStorage.getHistory(roomId, limit, offset) asked of both adapters.
getHistory(rid, limit, offset) ==
  /\ sent' = <<>>
  /\ lastOp' = [op |-> "getHistory", conn |-> 0, room |-> rid,
                limit |-> limit, offset |-> offset,
                memory |-> GetHistory(store[rid], limit, offset),
                mysql |-> MySQLGetHistory(table, rid, limit, offset)]
  /\ UNCHANGED <<clientVars, options, closed, currentRoomId, ident,
                 lastPresenceUpdate, appliedAt, registry, connections, store,
                 table, idCounter, pending, now>>

\* ============================================================ client.ts
\* ------------------------------------------------- frames of the client
JoinRoomPayload(roomId, presence, identity) ==
  [type |-> "join_room", roomId |-> roomId, presence |-> presence,
   accessToken |-> identity.accessToken, name |-> identity.name,
   email |-> identity.email]
LeaveRoomPayload(roomId) == [type |-> "leave_room", roomId |-> roomId]
UpdatePresencePayload(doc) == [type |-> "update_presence", presence |-> doc]

\* send(msg): `if (!ws || ws.readyState !== WebSocket.OPEN) return`, with the
\* socket w the variable ws holds and the ready states rs at the call.
send(w, rs, msg) ==
  IF w # NoSocket /\ rs[w] = "open" THEN <<[socket |-> w, msg |-> msg]>>
  ELSE <<>>

\* client.ts 244: pendingPresence ?? own entry of the last snapshot.
RejoinPresence ==
  IF pendingPresence # Null THEN pendingPresence
  ELSE IF state.connectionId # NoConn
          /\ state.connectionId \in DOMAIN state.presence
       THEN state.presence[state.connectionId].presence
       ELSE Undef

\* client.ts 241-252.
reconnectAndRejoin(w, rs) ==
  IF ~Truthy(state.currentRoomId) THEN <<>>
  ELSE send(w, rs, JoinRoomPayload(state.currentRoomId, RejoinPresence,
                                   lastJoinIdentity))

\* ------------------------------------------------------------- connect
SocketsCreated == Cardinality({k \in Sockets : readyState[k] # "none"})
SocketsLeft == SocketsCreated + authCalls < MaxSockets
NewSocket == SocketsCreated + 1

\* client.ts 255: connect() returns at once.
ConnectReturns == ws # NoSocket /\ readyState[ws] \in {"open", "connecting"}

\* client.ts 254-281: connect() up to `await getAuthToken()`, or up to
\* `new WebSocket(url)` when no getAuthToken is configured.
ConnectCore ==
  IF ConnectReturns
  THEN UNCHANGED <<ws, readyState, intentionalClose, state, authCalls>>
  ELSE /\ intentionalClose' = FALSE
       /\ state' = [state EXCEPT !.connectionStatus = "connecting"]
       /\ IF config.getAuthToken
          THEN /\ authCalls' = authCalls + 1
               /\ UNCHANGED <<ws, readyState>>
          ELSE /\ ws' = NewSocket
               /\ readyState' = [readyState EXCEPT ![NewSocket] = "connecting"]
               /\ UNCHANGED authCalls

connect ==
  /\ SocketsLeft
  /\ ConnectCore
  /\ disconnected' = FALSE
  /\ out' = <<>>
  /\ clientOp' = [op |-> "connect"]
  /\ UNCHANGED <<config, reconnectTimeoutId, nextReconnectMs, pendingPresence,
                 lastJoinIdentity, clientLastUpdate, attempts, serverVars>>

\* client.ts 265-281: the continuation of `await getAuthToken()`; ok = FALSE
\* is a getAuthToken that rejects.
getAuthTokenSettles(ok) ==
  /\ authCalls > 0
  /\ authCalls' = authCalls - 1
  /\ IF ok
     THEN /\ ws' = NewSocket
          /\ readyState' = [readyState EXCEPT ![NewSocket] = "connecting"]
          /\ UNCHANGED state
     ELSE /\ state' = [state EXCEPT !.connectionStatus = "closed"]
          /\ UNCHANGED <<ws, readyState>>
  /\ out' = <<>>
  /\ clientOp' = [op |-> "auth", ok |-> ok]
  /\ UNCHANGED <<config, reconnectTimeoutId, nextReconnectMs, intentionalClose,
                 pendingPresence, lastJoinIdentity, clientLastUpdate, attempts,
                 disconnected, serverVars>>

\* client.ts 283-287: ws.onopen of socket k.
onopen(k) ==
  /\ readyState[k] = "connecting"
  /\ readyState' = [readyState EXCEPT ![k] = "open"]
  /\ state' = [state EXCEPT !.connectionStatus = "open"]
  /\ nextReconnectMs' = reconnectIntervalMs
  /\ out' = reconnectAndRejoin(ws, readyState')
  /\ attempts' = 0
  /\ clientOp' = [op |-> "onopen", socket |-> k]
  /\ UNCHANGED <<config, ws, reconnectTimeoutId, intentionalClose,
                 pendingPresence, lastJoinIdentity, clientLastUpdate, authCalls,
                 disconnected, serverVars>>

\* client.ts 145-151.
clearReconnect ==
  /\ reconnectTimeoutId' = 0
  /\ nextReconnectMs' = reconnectIntervalMs

\* client.ts 153-164: clearReconnect() resets nextReconnectMs, then the timer
\* is set with nextReconnectMs.
scheduleReconnect ==
  IF ~config.reconnect \/ intentionalClose
  THEN UNCHANGED <<reconnectTimeoutId, nextReconnectMs, attempts>>
  ELSE /\ nextReconnectMs' = reconnectIntervalMs
       /\ reconnectTimeoutId' = nextReconnectMs'
       /\ attempts' = attempts + 1

\* client.ts 294-302: ws.onclose of socket k (a failed attempt, a lost
\* connection, or the close that follows ws.close()).
onclose(k) ==
  /\ readyState[k] \in {"connecting", "open", "closing"}
  /\ readyState' = [readyState EXCEPT ![k] = "closed"]
  /\ ws' = NoSocket
  /\ state' = [state EXCEPT !.connectionStatus = "closed"]
  /\ IF ~intentionalClose THEN scheduleReconnect
     ELSE clearReconnect /\ UNCHANGED attempts
  /\ out' = <<>>
  /\ clientOp' = [op |-> "onclose", socket |-> k, current |-> (ws = k),
                  intended |-> intentionalClose]
  /\ UNCHANGED <<config, intentionalClose, pendingPresence, lastJoinIdentity,
                 clientLastUpdate, authCalls, disconnected, serverVars>>

\* client.ts 156-163: the reconnect timer fires.
ReconnectTimer ==
  /\ reconnectTimeoutId # 0
  /\ SocketsLeft
  /\ reconnectTimeoutId' = 0
  /\ nextReconnectMs' = Min(nextReconnectMs * 2, maxReconnectIntervalMs)
  /\ ConnectCore
  /\ out' = <<>>
  /\ clientOp' = [op |-> "timer", delay |-> reconnectTimeoutId]
  /\ UNCHANGED <<config, pendingPresence, lastJoinIdentity, clientLastUpdate,
                 attempts, disconnected, serverVars>>

\* client.ts 311-325.
disconnect ==
  /\ intentionalClose' = TRUE
  /\ clearReconnect
  /\ state' = [connectionStatus |-> "closed", currentRoomId |-> Null,
               connectionId |-> NoConn, presence |-> EmptyPresence,
               chatMessages |-> <<>>]
  /\ pendingPresence' = Null
  /\ readyState' = IF ws # NoSocket /\ readyState[ws] \in {"connecting", "open"}
                   THEN [readyState EXCEPT ![ws] = "closing"]
                   ELSE readyState
  /\ ws' = NoSocket
  /\ disconnected' = TRUE
  /\ out' = <<>>
  /\ clientOp' = [op |-> "disconnect"]
  /\ UNCHANGED <<config, lastJoinIdentity, clientLastUpdate, authCalls,
                 attempts, serverVars>>

\* ------------------------------------------------------ room operations
\* client.ts 327-343; presence and the identity fields are Undef when the
\* caller passes none.
joinRoom(roomId, presence, identity) ==
  /\ out' = (IF Truthy(state.currentRoomId)
             THEN send(ws, readyState, LeaveRoomPayload(state.currentRoomId))
             ELSE <<>>)
            \o send(ws, readyState, JoinRoomPayload(roomId, presence, identity))
  /\ state' = [state EXCEPT !.currentRoomId = roomId,
                            !.presence = EmptyPresence,
                            !.chatMessages = <<>>]
  /\ pendingPresence' = IF presence = Undef THEN Null ELSE presence
  /\ lastJoinIdentity' = identity
  /\ clientOp' = [op |-> "joinRoom", room |-> roomId]
  /\ UNCHANGED <<config, ws, readyState, reconnectTimeoutId, nextReconnectMs,
                 intentionalClose, clientLastUpdate, authCalls, attempts,
                 disconnected, serverVars>>

\* client.ts 345-358.
leaveRoom(roomId) ==
  /\ LET target == IF roomId = Undef THEN state.currentRoomId ELSE roomId
     IN IF Truthy(target)
        THEN /\ out' = send(ws, readyState, LeaveRoomPayload(target))
             /\ IF target = state.currentRoomId
                THEN /\ state' = [state EXCEPT !.currentRoomId = Null,
                                               !.connectionId = NoConn,
                                               !.presence = EmptyPresence,
                                               !.chatMessages = <<>>]
                     /\ pendingPresence' = Null
                ELSE UNCHANGED <<state, pendingPresence>>
        ELSE /\ out' = <<>>
             /\ UNCHANGED <<state, pendingPresence>>
  /\ clientOp' = [op |-> "leaveRoom", room |-> roomId]
  /\ UNCHANGED <<config, ws, readyState, reconnectTimeoutId, nextReconnectMs,
                 intentionalClose, lastJoinIdentity, clientLastUpdate, authCalls,
                 attempts, disconnected, serverVars>>

\* client.ts 360-366.
updatePresence(doc) ==
  /\ pendingPresence' = doc
  /\ IF now - clientLastUpdate < presenceThrottleMs
     THEN /\ out' = <<>>
          /\ UNCHANGED clientLastUpdate
     ELSE /\ clientLastUpdate' = now
          /\ out' = send(ws, readyState, UpdatePresencePayload(doc))
  /\ clientOp' = [op |-> "updatePresence", doc |-> doc]
  /\ UNCHANGED <<config, ws, readyState, reconnectTimeoutId, nextReconnectMs,
                 intentionalClose, lastJoinIdentity, state, authCalls, attempts,
                 disconnected, serverVars>>

\* ------------------------------------------------------- server frames
\* client.ts 166-181.
applyPresenceUpdated(p, msg) ==
  IF "joined" \in DOMAIN msg THEN Put(p, msg.joined[1].connectionId, msg.joined[1])
  ELSE IF "left" \in DOMAIN msg THEN Remove(p, msg.left[1])
  ELSE Put(p, msg.updated[1].connectionId, msg.updated[1])

\* client.ts 183-239, for the frames that change presence or chat.
HandledState(msg) ==
  IF msg.type = "room_joined"
  THEN [state EXCEPT !.currentRoomId = msg.roomId,
                     !.connectionId = msg.connectionId,
                     !.presence = msg.presence,
                     !.chatMessages = msg.chatHistory]
  ELSE IF msg.type = "presence_updated"
  THEN [state EXCEPT !.presence = applyPresenceUpdated(@, msg)]
  ELSE IF msg.type = "chat_message" /\ state.currentRoomId = msg.roomId
  THEN [state EXCEPT !.chatMessages = Append(@, msg.message)]
  ELSE state

\* The frames a server sends to the session (connection 1) about room A.
OwnEntry(doc) == PresenceEntry(1, JoinEntry(NoIdent, doc))
ServerFrames ==
  {RoomJoinedMsg("A", 1, [x \in {1} |-> OwnEntry(doc)], <<>>) : doc \in Docs}
  \cup {JoinedMsg("A", PresenceEntry(2, JoinEntry(NoIdent, "{}"))),
        ChatMsg("A", 2, Undef, "hi")}

\* ws.onmessage of socket k: a socket delivers frames until its close event.
onmessage(k, msg) ==
  /\ readyState[k] \in {"open", "closing"}
  /\ state' = HandledState(msg)
  /\ out' = <<>>
  /\ clientOp' = [op |-> "onmessage", socket |-> k, type |-> msg.type]
  /\ UNCHANGED <<config, ws, readyState, reconnectTimeoutId, nextReconnectMs,
                 intentionalClose, pendingPresence, lastJoinIdentity,
                 clientLastUpdate, authCalls, attempts, disconnected,
                 serverVars>>


\* ------------------------------------- the session joined to the server
\* The session's open socket is the server's connection 1.
SessionConn == 1

\* connection.ts 87-104 and 116-200: the operation of a frame of the session.
\* room.ts 55: an absent presence is {}.
Dispatch(c, f) ==
  IF f.type = "join_room"
  THEN JoinRoom(c, f.roomId, IF f.presence = Undef THEN "{}" ELSE f.presence,
                f.accessToken, f.name, f.email, TRUE)
  ELSE IF f.type = "leave_room" THEN LeaveRoom(c, f.roomId)
  ELSE UpdatePresence(c, f.presence)

\* The frames of a step that reach the wire of the session's connection.
Downlink(fs) ==
  LET mine == SelectSeq(fs, LAMBDA f : f.to = SessionConn /\ f.wire)
  IN [i \in 1..Len(mine) |-> mine[i].msg]
Uplink(fs) == [i \in 1..Len(fs) |-> fs[i].msg]

\* A step of the server not caused by a frame of the session: what it sends
\* to connection 1 goes down the link.
ServerStep(A) ==
  /\ A
  /\ link' = [link EXCEPT !.down = @ \o Downlink(sent')]
  /\ Len(link'.down) <= MaxLink

\* ws.on("message") of connection 1: the oldest frame in flight is handled.
ServerReceives ==
  /\ link.up # <<>>
  /\ Dispatch(SessionConn, Head(link.up))
  /\ link' = [link EXCEPT !.up = Tail(@), !.down = @ \o Downlink(sent')]
  /\ Len(link'.down) <= MaxLink

\* A call of the session's API: what it sends goes up the link.
\* (left: the session's last room operation was a leaveRoom of its room.)
ClientStep(A) ==
  /\ A
  /\ link' = [link EXCEPT
               !.up = @ \o Uplink(out'),
               !.left = IF clientOp'.op = "joinRoom" THEN FALSE
                        ELSE IF clientOp'.op = "leaveRoom"
                                /\ Truthy(state.currentRoomId) THEN TRUE
                        ELSE @]
  /\ Len(link'.up) <= MaxLink

\* ws.onmessage of the session's socket: the oldest frame in flight.
ClientReceives ==
  /\ link.down # <<>>
  /\ ws # NoSocket
  /\ onmessage(ws, Head(link.down))
  /\ link' = [link EXCEPT !.down = Tail(@)]

\* ------------------------------------------------------- specifications
\* Membership: join (with and without a credential to decode), leave, close.
NextRooms ==
  \/ \E c \in Conns, rid \in RoomIds, doc \in Docs, token \in {Undef, "bad"} :
       JoinRoom(c, rid, doc, token, Undef, Undef, TRUE) /\ UNCHANGED link
  \/ \E s \in Slots : JoinAfterDecode(s, TRUE) /\ UNCHANGED link
  \/ \E s \in Slots : JoinResume(s) /\ UNCHANGED link
  \/ \E c \in Conns, rid \in RoomIds \cup {Undef} : LeaveRoom(c, rid) /\ UNCHANGED link
  \/ \E c \in Conns : HandleClose(c) /\ UNCHANGED link

SpecRooms == Init /\ [][NextRooms]_vars

\* Presence and events at one instant of the clock.
NextPresence ==
  \/ \E c \in Conns, rid \in {"", "A"} :
       JoinRoom(c, rid, "{}", Undef, Undef, Undef, TRUE) /\ UNCHANGED link
  \/ \E s \in Slots : JoinResume(s) /\ UNCHANGED link
  \/ \E c \in Conns : LeaveRoom(c, Undef) /\ UNCHANGED link
  \/ \E c \in Conns, doc \in Docs : UpdatePresence(c, doc) /\ UNCHANGED link
  \/ \E c \in Conns, ev \in Events : BroadcastEvent(c, ev) /\ UNCHANGED link
  \/ \E c \in Conns : HandleClose(c) /\ UNCHANGED link

SpecPresence == Init /\ [][NextPresence]_vars

\* The presence throttle, with the clock.
NextThrottle ==
  \/ \E c \in Conns : JoinRoom(c, "A", "{}", Undef, Undef, Undef, TRUE) /\ UNCHANGED link
  \/ \E s \in Slots : JoinResume(s) /\ UNCHANGED link
  \/ \E c \in Conns : LeaveRoom(c, Undef) /\ UNCHANGED link
  \/ \E c \in Conns, doc \in Docs : UpdatePresence(c, doc) /\ UNCHANGED link
  \/ Tick /\ UNCHANGED link

SpecThrottle == Init /\ [][NextThrottle]_vars

\* Chat, one send_chat in flight at a time.
NextChat ==
  \/ \E c \in Conns, rid \in {"", "A"} :
       JoinRoom(c, rid, "{}", Undef, Undef, Undef, TRUE) /\ UNCHANGED link
  \/ \E s \in Slots : JoinResume(s) /\ UNCHANGED link
  \/ \E c \in Conns : LeaveRoom(c, Undef) /\ UNCHANGED link
  \/ \E c \in Conns, body \in Bodies :
       SuspendedChats(pending) = {} /\ SendChat(c, body) /\ UNCHANGED link
  \/ \E s \in Slots, ok \in BOOLEAN : AppendSettle(s, ok) /\ UNCHANGED link
  \/ \E s \in Slots : ChatResume(s) /\ UNCHANGED link
  \/ \E c \in Conns : HandleClose(c) /\ UNCHANGED link

SpecChat == Init /\ [][NextChat]_vars


\* Chat from several connections of one room, appends in flight together.
NextChatOrder ==
  \/ \E c \in Conns : JoinRoom(c, "A", "{}", Undef, Undef, Undef, TRUE) /\ UNCHANGED link
  \/ \E s \in Slots : JoinResume(s) /\ UNCHANGED link
  \/ \E c \in Conns, body \in Bodies : SendChat(c, body) /\ UNCHANGED link
  \/ \E s \in Slots, ok \in BOOLEAN : AppendSettle(s, ok) /\ UNCHANGED link
  \/ \E s \in Slots : ChatResume(s) /\ UNCHANGED link

SpecChatOrder == Init /\ [][NextChatOrder]_vars

\* Chat history served to joiners, for every pair of limits.
NextHistory ==
  \/ \E c \in Conns : JoinRoom(c, "A", "{}", Undef, Undef, Undef, TRUE) /\ UNCHANGED link
  \/ \E s \in Slots : JoinResume(s) /\ UNCHANGED link
  \/ \E c \in Conns : LeaveRoom(c, Undef) /\ UNCHANGED link
  \/ \E c \in Conns, body \in Bodies :
       SuspendedChats(pending) = {} /\ SendChat(c, body) /\ UNCHANGED link
  \/ \E s \in Slots : AppendSettle(s, TRUE) /\ UNCHANGED link
  \/ \E s \in Slots : ChatResume(s) /\ UNCHANGED link

SpecHistory == InitOptions /\ [][NextHistory]_vars

\* The storage adapters called directly, for every retention limit.
NextStore ==
  \/ \E rid \in {"A", "B"}, c \in Conns, body \in Bodies : append(rid, c, body) /\ UNCHANGED link
  \/ \E rid \in RoomIds, limit \in 0..MaxPage, offset \in 0..MaxPage :
       getHistory(rid, limit, offset) /\ UNCHANGED link

SpecStore == InitOptions /\ [][NextStore]_vars

\* Disconnects among joins to rooms with non-empty ids, and frames that
\* arrive after the close.
NextClose ==
  \/ \E c \in Conns, rid \in {"A", "B"}, token \in {Undef, "bad"} :
       JoinRoom(c, rid, "{}", token, Undef, Undef, TRUE) /\ UNCHANGED link
  \/ \E s \in Slots : JoinAfterDecode(s, TRUE) /\ UNCHANGED link
  \/ \E s \in Slots : JoinResume(s) /\ UNCHANGED link
  \/ \E c \in Conns : LeaveRoom(c, Undef) /\ UNCHANGED link
  \/ \E c \in Conns : HandleClose(c) /\ UNCHANGED link
  \/ \E c \in Conns : DiscardAfterClose(c) /\ UNCHANGED link
  \/ \E c \in Conns, f \in Frames : InvalidFrame(c, f) /\ UNCHANGED link

SpecClose == Init /\ [][NextClose]_vars

\* The close listener invoked more than once.
NextReclose ==
  \/ \E c \in Conns, rid \in {"A", "B"} :
       JoinRoom(c, rid, "{}", Undef, Undef, Undef, TRUE) /\ UNCHANGED link
  \/ \E s \in Slots : JoinResume(s) /\ UNCHANGED link
  \/ \E c \in Conns : LeaveRoom(c, Undef) /\ UNCHANGED link
  \/ \E c \in Conns : HandleClose(c) /\ UNCHANGED link
  \/ \E c \in Conns : HandleCloseAgain(c) /\ UNCHANGED link

SpecReclose == Init /\ [][NextReclose]_vars

\* Joins that fail after the Room has accepted them.
NextJoinFail ==
  \/ \E c \in Conns, rid \in {"A", "B"} :
       JoinRoom(c, rid, "{}", Undef, Undef, Undef, TRUE) /\ UNCHANGED link
  \/ \E s \in Slots : JoinResume(s) /\ UNCHANGED link
  \/ \E s \in Slots : JoinFails(s) /\ UNCHANGED link
  \/ \E c \in Conns : LeaveRoom(c, Undef) /\ UNCHANGED link

SpecJoinFail == Init /\ [][NextJoinFail]_vars

\* Frames of connections inside and outside rooms, leave_room naming rooms.
NextNoop ==
  \/ \E c \in Conns, rid \in {"", "A"} :
       JoinRoom(c, rid, "{}", Undef, Undef, Undef, TRUE) /\ UNCHANGED link
  \/ \E s \in Slots : JoinResume(s) /\ UNCHANGED link
  \/ \E c \in Conns, rid \in {"", "A", Undef} : LeaveRoom(c, rid) /\ UNCHANGED link
  \/ \E c \in Conns, ev \in Events : BroadcastEvent(c, ev) /\ UNCHANGED link
  \/ \E c \in Conns, body \in Bodies :
       SuspendedChats(pending) = {} /\ SendChat(c, body) /\ UNCHANGED link
  \/ \E s \in Slots : AppendSettle(s, TRUE) /\ UNCHANGED link
  \/ \E s \in Slots : ChatResume(s) /\ UNCHANGED link

SpecNoop == Init /\ [][NextNoop]_vars

\* Identity: joins of connection 1 with and without credential, name and
\* email, plain joins of the others, connections with and without an onAuth
\* identity, two joins in flight.
NextIdentity ==
  \/ \E token \in Tokens \cup {Undef},
        name \in ClientNames \cup {Undef}, email \in ClientEmails \cup {Undef} :
       /\ Cardinality(SuspendedJoins(pending)) < MaxIdentJoins
       /\ JoinRoomFrame(1, "A", "{}", token, name, email, TRUE) /\ UNCHANGED link
  \/ \E c \in Conns \ {1} :
       /\ Cardinality(SuspendedJoins(pending)) < MaxIdentJoins
       /\ JoinRoomFrame(c, "A", "{}", Undef, Undef, Undef, TRUE) /\ UNCHANGED link
  \/ \E s \in Slots : JoinAfterDecode(s, TRUE) /\ UNCHANGED link
  \/ \E s \in Slots : JoinResume(s) /\ UNCHANGED link

SpecIdentity == InitAuth /\ [][NextIdentity]_vars

\* The client's connection cycle: connect, token, open, close, timer,
\* disconnect.
NextReconnect ==
  \/ connect /\ UNCHANGED link
  \/ \E ok \in BOOLEAN : getAuthTokenSettles(ok) /\ UNCHANGED link
  \/ \E k \in Sockets : onopen(k) /\ UNCHANGED link
  \/ \E k \in Sockets : onclose(k) /\ UNCHANGED link
  \/ ReconnectTimer /\ UNCHANGED link
  \/ disconnect /\ UNCHANGED link

SpecReconnect == InitSession /\ [][NextReconnect]_vars

\* Identities a caller passes to joinRoom.
Identities == {NoIdentity,
               [accessToken |-> "good", name |-> Undef, email |-> Undef],
               [accessToken |-> Undef, name |-> "cli", email |-> "cli@x"]}

\* The client in and out of rooms across connections.
NextSession ==
  \/ connect /\ UNCHANGED link
  \/ \E k \in Sockets : onopen(k) /\ UNCHANGED link
  \/ \E k \in Sockets : onclose(k) /\ UNCHANGED link
  \/ ReconnectTimer /\ UNCHANGED link
  \/ disconnect /\ UNCHANGED link
  \/ \E rid \in {"", "A"}, p \in {Undef, "p1"}, id \in Identities :
       joinRoom(rid, p, id) /\ UNCHANGED link
  \/ \E rid \in {Undef, "A"} : leaveRoom(rid) /\ UNCHANGED link
  \/ \E doc \in Docs : updatePresence(doc) /\ UNCHANGED link
  \/ \E k \in Sockets, msg \in ServerFrames :
       /\ msg.type = "chat_message" => Len(state.chatMessages) < MaxChats
       /\ onmessage(k, msg) /\ UNCHANGED link

SpecSession == Init /\ [][NextSession]_vars

\* The session and another connection in and out of room A, every frame of
\* the session travelling over the link.
NextLink ==
  \/ ClientStep(connect)
  \/ \E k \in Sockets : ClientStep(onopen(k))
  \/ ClientStep(joinRoom("A", Undef, NoIdentity))
  \/ ClientStep(leaveRoom(Undef))
  \/ ClientReceives
  \/ ServerReceives
  \/ \E s \in Slots : ServerStep(JoinResume(s))
  \/ ServerStep(JoinRoom(2, "A", "{}", Undef, Undef, Undef, TRUE))
  \/ ServerStep(LeaveRoom(2, Undef))
  \/ ServerStep(UpdatePresence(2, "p1"))

SpecLink == Init /\ [][NextLink]_vars

\* ================================================================ claims
FramesTo(d) == {k \in 1..Len(sent) : sent[k].to = d}
IsLeft(msg, rid, c) ==
  /\ msg.type = "presence_updated" /\ "left" \in DOMAIN msg
  /\ msg.roomId = rid /\ msg.left = <<c>>
IsJoined(msg) == msg.type = "presence_updated" /\ "joined" \in DOMAIN msg
IsUpdated(msg) == msg.type = "presence_updated" /\ "updated" \in DOMAIN msg
RoomsOf(c) == {r \in RoomIds : c \in DOMAIN connections[r]}

\* C1 (as claimed): in every reachable state each connection id is a key of
\* at most one Room's member map, room ids ranging over all strings, the
\* empty string included.
C1_SingleRoom == \A c \in Conns : Cardinality(RoomsOf(c)) <= 1

\* C2 (as claimed): when a connection that is a member of room A has its
\* join_room for another room B executed, every remaining member of A is sent
\* presence_updated{left:[c]} in that step, that is before the frames of the
\* join (room_joined, joined), which are sent by its continuation.
C2_LeftBeforeJoin ==
  [][\A c \in Conns, a \in RoomIds :
       ( /\ lastOp'.op \in {"join", "join_decoded"}
         /\ lastOp'.conn = c
         /\ lastOp'.room # a
         /\ c \in DOMAIN connections[a] )
       => \A d \in DOMAIN connections[a] \ {c} :
            \E k \in 1..Len(sent') :
              sent'[k].to = d /\ IsLeft(sent'[k].msg, a, c)]_vars

\* C3: a join of c accepted by room R snapshots exactly R's member map at
\* that moment, c included with its initial presence; its continuation hands
\* c exactly one room_joined carrying that snapshot, and hands every other
\* member of the Room exactly one presence_updated{joined} whose list is c's
\* entry alone.
C3_JoinSnapshot ==
  /\ lastOp.op \in {"join", "join_decoded"} =>
       \E s \in Slots :
         /\ pending[s].kind = "history"
         /\ pending[s].conn = lastOp.conn
         /\ pending[s].roomId = lastOp.room
         /\ pending[s].live
         /\ DOMAIN pending[s].pmap = DOMAIN connections[lastOp.room]
         /\ \A x \in DOMAIN pending[s].pmap :
              pending[s].pmap[x] = PresenceEntry(x, connections[lastOp.room][x])
         /\ lastOp.conn \in DOMAIN pending[s].pmap
         /\ pending[s].pmap[lastOp.conn].presence = lastOp.doc
  /\ lastOp.op = "join_resume" =>
       LET op == lastOp.rec
           others == DOMAIN OpMembers(op) \ {op.conn}
       IN /\ Len(sent) = 1 + Cardinality(others)
          /\ \E k \in FramesTo(op.conn) :
               /\ FramesTo(op.conn) = {k}
               /\ sent[k].msg.type = "room_joined"
               /\ sent[k].msg.roomId = op.roomId
               /\ sent[k].msg.presence = op.pmap
          /\ \A d \in others :
               \E k \in FramesTo(d) :
                 /\ FramesTo(d) = {k}
                 /\ IsJoined(sent[k].msg)
                 /\ Len(sent[k].msg.joined) = 1
                 /\ sent[k].msg.joined[1].connectionId = op.conn

\* C3 witness: a join continuation has run in a room with another member.
C3_Witness ==
  /\ lastOp.op = "join_resume"
  /\ Cardinality(DOMAIN lastOp.rec.pmap) = 2
  /\ \E k \in 1..Len(sent) : IsJoined(sent[k].msg) /\ sent[k].to # lastOp.conn

\* C4 (as claimed): a leave_room without roomId, or with the current one, from
\* a connection that occupies a room removes it from that room's member map,
\* hands every remaining member exactly one presence_updated{left:[c]} and
\* hands c nothing.
C4_LeaveNotifies ==
  ( /\ lastOp.op = "leave"
    /\ lastOp.from # Null
    /\ lastOp.room \in {Undef, lastOp.from} )
  => /\ lastOp.conn \notin DOMAIN connections[lastOp.from]
     /\ FramesTo(lastOp.conn) = {}
     /\ Len(sent) = Cardinality(DOMAIN connections[lastOp.from])
     /\ \A d \in DOMAIN connections[lastOp.from] :
          \E k \in FramesTo(d) :
            FramesTo(d) = {k} /\ IsLeft(sent[k].msg, lastOp.from, lastOp.conn)

\* C5: two applied update_presence of one connection are at least
\* presenceThrottleMs apart, and a presence_updated{updated} is handed out
\* only by an applied update: frames of one connection that all arrive within
\* a span shorter than presenceThrottleMs give every other member at most one.
C5_ThrottleSpacing ==
  [][ /\ (lastOp'.op = "update" /\ lastOp'.hit) =>
           \/ appliedAt[lastOp'.conn] = Never
           \/ now' - appliedAt[lastOp'.conn] >= PresenceThrottleMs
      /\ \A k \in 1..Len(sent') :
           IsUpdated(sent'[k].msg) =>
             /\ lastOp'.op = "update" /\ lastOp'.hit
             /\ sent'[k].msg.updated[1].connectionId = lastOp'.conn
             /\ sent'[k].to # lastOp'.conn ]_vars

\* C5 witness: an update_presence of a member with company arrives within the
\* window of its last applied update, and is dropped.
C5_Witness ==
  /\ lastOp.op = "update_dropped"
  /\ appliedAt[lastOp.conn] # Never
  /\ now - appliedAt[lastOp.conn] < PresenceThrottleMs
  /\ \E r \in RoomIds : /\ lastOp.conn \in DOMAIN connections[r]
                        /\ Cardinality(DOMAIN connections[r]) = 2

\* C6: an update_presence that arrives inside the throttle window changes
\* nothing the server holds (member maps and their presence documents,
\* suspended dispatches, the throttle stamp) and hands out no frame, neither a
\* presence_updated nor an error: no later step can tell it was received.
C6_DroppedNoEffect ==
  [][\A c \in Conns :
       ( /\ lastOp'.op \in {"update", "update_dropped"}
         /\ lastOp'.conn = c
         /\ now - lastPresenceUpdate[c] < PresenceThrottleMs )
       => /\ sent' = <<>>
          /\ UNCHANGED <<closed, currentRoomId, ident, lastPresenceUpdate,
                         appliedAt, registry, connections, store, idCounter,
                         pending, now>>]_vars

\* C6 witness: a dropped update carried a document other than the stored one,
\* in a room with another member.
C6_Witness ==
  /\ lastOp.op = "update_dropped"
  /\ \E r \in RoomIds :
       /\ lastOp.conn \in DOMAIN connections[r]
       /\ connections[r][lastOp.conn].presence # lastOp.doc
       /\ Cardinality(DOMAIN connections[r]) = 2

\* C7 (as claimed): an update_presence that passed the throttle, and a
\* broadcast_event, from a member c of room R hand every other member of R
\* exactly one notification (presence_updated{updated:[c's entry]}, the relay
\* of the event) and c none; the chat store is not appended to.
C7_OthersOnly ==
  ( \/ lastOp.op = "event"
    \/ lastOp.op = "update" )
  => /\ FramesTo(lastOp.conn) = {}
     /\ store = [r \in RoomIds |-> <<>>]
     /\ \A r \in RoomsOf(lastOp.conn) :
          \A d \in DOMAIN connections[r] \ {lastOp.conn} :
            \E k \in FramesTo(d) :
              /\ FramesTo(d) = {k}
              /\ sent[k].msg.roomId = r
              /\ IF lastOp.op = "event"
                 THEN /\ sent[k].msg.type = "broadcast_event"
                      /\ sent[k].msg.connectionId = lastOp.conn
                 ELSE /\ IsUpdated(sent[k].msg)
                      /\ sent[k].msg.updated =
                           <<PresenceEntry(lastOp.conn, connections[r][lastOp.conn])>>
                      /\ sent[k].msg.updated[1].presence = lastOp.doc

\* C8 (as claimed): when the append of a chat message has succeeded and the
\* send_chat resumes, every member of the room of that id is handed exactly
\* one chat_message, the sender included, and no other connection is handed
\* one.
C8_ChatToMembers ==
  (lastOp.op = "chat_resume" /\ lastOp.rec.stage = "ok")
  => LET M == DOMAIN connections[lastOp.rec.roomId]
     IN /\ \A d \in M :
             \E k \in FramesTo(d) :
               /\ FramesTo(d) = {k}
               /\ sent[k].msg.type = "chat_message"
               /\ sent[k].msg.message = lastOp.rec.message
        /\ \A k \in 1..Len(sent) : sent[k].to \in M

\* C9 (as claimed): a send_chat accepted from member c of room R, with the
\* store accepting the append, ends with the message in the store's log of R
\* and with a chat_message echo handed to c, whatever frames of c were handled
\* while the append was suspended.  (A closed connection has no socket to
\* receive on: the echo is asked of connections that are still open.)
C9_StoredAndEchoed ==
  (lastOp.op = "chat_resume" /\ lastOp.rec.stage = "ok")
  => LET op == lastOp.rec
     IN /\ \E i \in 1..Len(store[op.roomId]) :
             /\ store[op.roomId][i].connectionId = op.conn
             /\ store[op.roomId][i].message = op.message
        /\ ~closed[op.conn] =>
             \E k \in FramesTo(op.conn) :
               /\ sent[k].msg.type = "chat_message"
               /\ sent[k].msg.message = op.message

\* C10: a chat_message is handed out only by the continuation of a send_chat
\* whose append the store has completed successfully, and the message is then
\* in the store's log of that room.
C10_AppendThenBroadcast ==
  \A k \in 1..Len(sent) :
    sent[k].msg.type = "chat_message" =>
      /\ lastOp.op = "chat_resume"
      /\ lastOp.rec.stage = "ok"
      /\ \E i \in 1..Len(store[sent[k].msg.roomId]) :
           /\ store[sent[k].msg.roomId][i].connectionId = sent[k].msg.connectionId
           /\ store[sent[k].msg.roomId][i].message = sent[k].msg.message

\* C10 witness: a chat_message has been handed to two members.
C10_Witness ==
  /\ lastOp.op = "chat_resume"
  /\ Len(sent) = 2
  /\ \A k \in 1..Len(sent) : sent[k].msg.type = "chat_message"

\* C11 (as claimed): a member handed the chat_message of two messages of one
\* room is handed them in the order the two have in the store's log of the
\* room.  Stated for two broadcasts that follow one another: the message
\* broadcast first stands before the message broadcast next.
C11_BroadcastOrder ==
  [][( /\ lastOp.op = "chat_resume" /\ lastOp.rec.stage = "ok"
       /\ lastOp'.op = "chat_resume" /\ lastOp'.rec.stage = "ok"
       /\ lastOp.rec.roomId = lastOp'.rec.roomId
       /\ \E d \in Conns : FramesTo(d) # {}
                           /\ \E k \in 1..Len(sent') : sent'[k].to = d )
     => LET a == lastOp.rec
            b == lastOp'.rec
            l == store'[b.roomId]
        IN \A i, j \in 1..Len(l) :
             (l[i].id = a.mid /\ l[j].id = b.mid) => i < j]_vars

\* The last n elements of a sequence.
Latest(l, n) == SubSeq(l, Len(l) - Min(n, Len(l)) + 1, Len(l))

\* C12 (as claimed): the chatHistory a join accepted by room R will carry is
\* the most recent min(historyLimit, n) of the n messages the store holds for
\* R, oldest first, whatever the room's historyLimit and the store's own
\* limit are.
C12_RecentHistory ==
  lastOp.op \in {"join", "join_decoded"} =>
    \A s \in Slots :
      ( /\ pending[s].kind = "history"
        /\ pending[s].conn = lastOp.conn
        /\ pending[s].live )
      => pending[s].hist = Latest(store[lastOp.room], HistoryLimit)

\* C13 (as claimed): the close of a member c of room R hands every remaining
\* member of R exactly one presence_updated{left:[c]}, hands no error and
\* nothing to connections outside R; and that one left is the only one the
\* disconnect causes: no step after the close hands out another left for c.
C13_OneLeftOnClose ==
  [][\A c \in Conns :
       /\ (lastOp'.op = "close" /\ lastOp'.conn = c) =>
            \A r \in RoomIds :
              c \in DOMAIN connections[r] =>
                /\ \A d \in DOMAIN connections[r] \ {c} :
                     \E k \in 1..Len(sent') :
                       /\ {j \in 1..Len(sent') : sent'[j].to = d} = {k}
                       /\ IsLeft(sent'[k].msg, r, c)
                /\ \A k \in 1..Len(sent') :
                     sent'[k].to \in DOMAIN connections[r] \ {c}
       /\ closed[c] =>
            \A k \in 1..Len(sent'), r \in RoomIds :
              ~IsLeft(sent'[k].msg, r, c)]_vars

\* The steps that handle an inbound frame (continuations of awaits and the
\* close event are not among them).
FrameOps == {"join", "join_decode", "leave", "update", "update_dropped",
             "event", "chat", "invalid", "discard"}

\* C14: a frame handled for a connection whose close has been handled hands
\* out no frame, not even an error, and changes no room, registry, identity,
\* throttle or store state.
C14_ClosedDiscards ==
  [][\A c \in Conns :
       (lastOp'.op \in FrameOps /\ lastOp'.conn = c /\ closed[c])
       => /\ sent' = <<>>
          /\ UNCHANGED <<closed, currentRoomId, ident, lastPresenceUpdate,
                         appliedAt, registry, connections, store, idCounter,
                         pending, now, options>>]_vars

\* C14 witness: a frame was discarded for a closed connection while another
\* connection is a member of a room.
C14_Witness ==
  /\ lastOp.op = "discard"
  /\ closed[lastOp.conn]
  /\ \E r \in RoomIds, d \in Conns : d # lastOp.conn /\ d \in DOMAIN connections[r]

\* C15 (as claimed): handling the close of a connection a second time changes
\* no room or registry state and hands no frame to any connection.
C15_CloseIdempotent ==
  [][lastOp'.op = "close_again"
     => /\ sent' = <<>>
        /\ UNCHANGED <<closed, currentRoomId, registry, connections>>]_vars

\* C16 (as claimed): the operation for a frame of connection c begins only
\* when no earlier operation of c is still suspended (in identity resolution,
\* in the history fetch or in the chat append).
C16_PerConnectionOrder ==
  [][\A c \in Conns :
       (lastOp'.op \in FrameOps \ {"discard"} /\ lastOp'.conn = c)
       => \A s \in Slots : pending[s].kind # "none" => pending[s].conn # c]_vars

\* C17 (as claimed): between the membership insert of a join accepted by a
\* Room and the dispatch of that join's notifications, no other operation
\* changes the Room's member map or hands out a frame of that room.  Stated
\* for the operations of the other connections.
C17_RoomOpsAtomic ==
  [][\A s \in Slots :
       ( /\ pending[s].kind = "history" /\ ~pending[s].orphan
         /\ pending'[s] # NoOp
         /\ lastOp'.conn # pending[s].conn )
       => /\ connections'[pending[s].roomId] = connections[pending[s].roomId]
          /\ \A k \in 1..Len(sent') :
               "roomId" \in DOMAIN sent'[k].msg
                 => sent'[k].msg.roomId # pending[s].roomId]_vars

\* C18: a frame that is not JSON is answered with exactly one
\* error{INVALID_JSON}, a JSON frame without one of the five client types with
\* exactly one error{INVALID_MESSAGE}; the error goes to the offending
\* connection only, and membership, presence, registry and store are unchanged.
C18_MalformedFrame ==
  [][lastOp'.op = "invalid"
     => /\ sent' = <<[to |-> lastOp'.conn, wire |-> TRUE,
                      msg |-> ErrorMsg(IF lastOp'.frame.json
                                       THEN "INVALID_MESSAGE"
                                       ELSE "INVALID_JSON")]>>
        /\ lastOp'.frame.json => lastOp'.frame.type \notin ClientTypes
        /\ UNCHANGED <<closed, currentRoomId, ident, lastPresenceUpdate,
                       registry, connections, store, idCounter, pending>>]_vars

\* C18 witness: a frame that is not JSON was rejected while its sender is a
\* member of a room with another member.
C18_Witness ==
  /\ lastOp.op = "invalid"
  /\ ~lastOp.frame.json
  /\ \E r \in RoomIds : /\ lastOp.conn \in DOMAIN connections[r]
                        /\ Cardinality(DOMAIN connections[r]) = 2

\* C19: when the store rejects the append of a send_chat, the sender is handed
\* exactly one error{SERVER_ERROR}, nobody is handed a chat_message or another
\* error, and neither the rejection nor its handling changes membership,
\* presence, the registry or the store.
C19_AppendFailure ==
  [][/\ (lastOp'.op = "append_settle" /\ ~lastOp'.ok) =>
          /\ sent' = <<>>
          /\ UNCHANGED <<currentRoomId, registry, connections, store>>
     /\ (lastOp'.op = "chat_resume" /\ lastOp'.rec.stage = "failed") =>
          /\ Len(sent') = 1
          /\ sent'[1].to = lastOp'.rec.conn
          /\ sent'[1].msg = ErrorMsg("SERVER_ERROR")
          /\ UNCHANGED <<currentRoomId, registry, connections, store>>]_vars

\* C19 witness: a rejected append was reported while the room of the message
\* has two members.
C19_Witness ==
  /\ lastOp.op = "chat_resume"
  /\ lastOp.rec.stage = "failed"
  /\ Cardinality(DOMAIN connections[lastOp.rec.roomId]) = 2
  /\ lastOp.rec.conn \in DOMAIN connections[lastOp.rec.roomId]

\* C20 (as claimed): after a join_room that was answered with
\* error{SERVER_ERROR}, the connection's current room is the one it had before
\* the frame, it is still a member of that room, and it is not a member of
\* the room it tried to join.
C20_JoinRollback ==
  lastOp.op = "join_failed" =>
    LET op == lastOp.rec
        c == op.conn
    IN /\ currentRoomId[c] = op.from
       /\ InARoom(op.from) => c \in DOMAIN connections[op.from]
       /\ op.roomId # op.from => c \notin DOMAIN connections[op.roomId]

\* C21 (as claimed): when the credential of a join_room fails to resolve and
\* the frame carries a name and/or an email, on a connection that had no
\* identity when the frame arrived, the join goes on without an error frame
\* and the entry it puts in the room (the one of room_joined and of the joined
\* delta) carries the name and the email of the frame.
C21_FallbackIdentity ==
  [][\A s \in Slots :
       ( /\ pending[s].kind = "decode"
         /\ lastOp'.op = "join_decoded"
         /\ pending'[s] # pending[s]
         /\ ~DecodeOk(pending[s].token)
         /\ pending[s].had = NoIdent
         /\ (Truthy(pending[s].name) \/ Truthy(pending[s].email)) )
       => /\ \A k \in 1..Len(sent') : sent'[k].msg.type # "error"
          /\ \E t \in Slots :
               /\ pending'[t].kind = "history"
               /\ pending'[t].conn = pending[s].conn
               /\ pending'[t].live
               /\ Truthy(pending[s].name) =>
                    /\ pending'[t].entry.name = pending[s].name
                    /\ pending'[t].pmap[pending[s].conn].name = pending[s].name
               /\ Truthy(pending[s].email) =>
                    /\ pending'[t].entry.email = pending[s].email
                    /\ pending'[t].pmap[pending[s].conn].email = pending[s].email]_vars

IdentityFields == {"userId", "name", "email", "provider"}

\* C22 (as claimed): an identity field of a connection that holds a value
\* keeps that value in every step.
C22_IdentityImmutable ==
  [][\A c \in Conns, f \in IdentityFields :
       ident[c][f] # Undef => ident'[c][f] = ident[c][f]]_vars

\* The presence entries a frame carries.
EntriesOf(msg) ==
  IF msg.type = "room_joined"
  THEN {msg.presence[x] : x \in DOMAIN msg.presence}
  ELSE IF IsJoined(msg) THEN {msg.joined[1]}
  ELSE IF IsUpdated(msg) THEN {msg.updated[1]}
  ELSE {}

\* C23 (as claimed): every presence entry handed out for a connection whose
\* onAuth resolved to a UserInfo with userId, name, email and provider carries
\* those four values.
C23_OnAuthIdentity ==
  \A k \in 1..Len(sent) :
    \A e \in EntriesOf(sent[k].msg) :
      LET u == options.authResult[e.connectionId]
      IN (\A f \in IdentityFields : u[f] # Undef)
         => \A f \in IdentityFields : e[f] = u[f]

\* C24: a leave_room, broadcast_event or send_chat of a connection that has no
\* current room or is a member of no room, and a leave_room that names a room
\* other than the current one, hands out no frame, starts no append and
\* changes no room, registry, store or connection state.
C24_NoRoomNoop ==
  [][\A c \in Conns :
       ( /\ lastOp'.conn = c
         /\ lastOp'.op \in {"leave", "event", "chat"}
         /\ \/ currentRoomId[c] = Null
            \/ RoomsOf(c) = {}
            \/ /\ lastOp'.op = "leave"
               /\ lastOp'.room \notin {Undef, currentRoomId[c]} )
       => /\ sent' = <<>>
          /\ UNCHANGED <<closed, currentRoomId, ident, lastPresenceUpdate,
                         appliedAt, registry, connections, store, idCounter,
                         pending, now, options>>]_vars

\* C24 witness: a member of a room of two has sent a leave_room that names
\* another room.
C24_Witness ==
  /\ lastOp.op = "leave"
  /\ lastOp.from = "A"
  /\ lastOp.room = ""
  /\ Cardinality(DOMAIN connections["A"]) = 2
  /\ lastOp.conn \in DOMAIN connections["A"]

\* C25: only the Room the registry maps an id to has members: a Room instance
\* removed from the registry (still held by a suspended operation) has none,
\* an id the registry does not map has none, and an instance is removed only
\* in a step after which it has no member, the only member it lost in that
\* step being the connection whose frame or close it was.
C25_OneRoomPerId ==
  [][/\ \A s \in Slots :
          (HasInst(pending'[s]) /\ pending'[s].orphan)
          => DOMAIN pending'[s].omap = {}
     /\ \A r \in RoomIds :
          /\ ~registry'[r] => DOMAIN connections'[r] = {}
          /\ (registry[r] /\ ~registry'[r])
               => DOMAIN connections[r] \subseteq {lastOp'.conn}]_vars

\* C25 witness: a suspended operation holds a removed Room while the registry
\* maps the same id to a newer Room that has a member.
C25_Witness ==
  \E s \in Slots :
    /\ HasInst(pending[s])
    /\ pending[s].orphan
    /\ registry[pending[s].roomId]
    /\ DOMAIN connections[pending[s].roomId] # {}

\* C26 (as claimed): when the only member of a room leaves it (a leave_room
\* without room id or naming it, a join_room for another room, the close of
\* the connection), the registry no longer maps the room id after the step.
C26_EmptyRoomRemoved ==
  [][\A c \in Conns, r \in RoomIds :
       ( /\ lastOp'.conn = c
         /\ DOMAIN connections[r] = {c}
         /\ \/ lastOp'.op = "close"
            \/ lastOp'.op = "leave" /\ lastOp'.room \in {Undef, r}
            \/ lastOp'.op = "join" /\ lastOp'.room # r )
       => ~registry'[r]]_vars

\* C27 (as claimed): when a socket of the session reaches open while the
\* session holds a current room id R, exactly one frame is sent, on that
\* socket: join_room with roomId R, the pending presence document (or, when
\* none is pending, the presence of the session's own entry in the last
\* snapshot) and the identity of the last joinRoom call; when the session
\* holds no room, nothing is sent.
C27_RejoinOnOpen ==
  [][clientOp'.op = "onopen" =>
       IF state.currentRoomId # Null
       THEN out' = <<[socket |-> clientOp'.socket,
                      msg |-> JoinRoomPayload(state.currentRoomId,
                                              RejoinPresence,
                                              lastJoinIdentity)]>>
       ELSE out' = <<>>]_vars

\* C28 (as claimed): the delay the n-th reconnect timer in a row is set with
\* (no open since the first of them, the timer before it has fired) is
\* min(base * 2^(n-1), ceiling).
C28_Backoff ==
  [][( /\ clientOp'.op = "onclose"
       /\ reconnectTimeoutId = 0
       /\ reconnectTimeoutId' # 0
       /\ attempts' = attempts + 1 )
     => reconnectTimeoutId' =
          Min(reconnectIntervalMs * 2^(attempts' - 1), maxReconnectIntervalMs)]_vars

\* C29 (as claimed): after disconnect(), and after the close event of the
\* session's socket, the local presence map and the chat list are empty.
C29_ClearedOnDisconnect ==
  [][( \/ clientOp'.op = "disconnect"
       \/ clientOp'.op = "onclose" /\ clientOp'.current )
     => /\ DOMAIN state'.presence = {}
        /\ Len(state'.chatMessages) = 0]_vars

\* C30 (as claimed): from disconnect() until the next call of connect() the
\* session creates no socket and its connectionStatus is neither connecting
\* nor open.
C30_StaysDisconnected ==
  [][(disconnected /\ disconnected')
     => /\ \A k \in Sockets : readyState[k] = "none" => readyState'[k] = "none"
        /\ state'.connectionStatus \notin {"connecting", "open"}]_vars

\* ------------------------------------------------------- storage adapters
\* What identifies a stored message across adapters: when it was appended and
\* what was appended (the adapters make up different ids).
MemoryKeys(l) ==
  [i \in 1..Len(l) |-> [at |-> l[i].id, roomId |-> l[i].roomId,
                        connectionId |-> l[i].connectionId,
                        message |-> l[i].message]]
RowKeys(l) ==
  [i \in 1..Len(l) |-> [at |-> l[i].createdAt, roomId |-> l[i].roomId,
                        connectionId |-> l[i].connectionId,
                        message |-> l[i].message]]

\* C31: getHistory(roomId, limit, offset) of the in-memory store returns
\* exactly the retained messages of the room at positions [offset,
\* offset + limit), oldest first; getHistory(roomId, 1, 0) returns the oldest
\* retained message; a room never appended to yields the empty list; an append
\* to one room leaves every other room's history as it was.
C31_PageOf(l, n, o, r) ==
  /\ Len(r) = Max(0, Min(n, Len(l) - o))
  /\ \A i \in 1..Len(r) : r[i] = l[o + i]
  /\ (n = 1 /\ o = 0 /\ l # <<>>) => r = <<l[1]>>
C31_HistoryPage ==
  [][(lastOp'.op = "getHistory" =>
        /\ C31_PageOf(store[lastOp'.room], lastOp'.limit, lastOp'.offset,
                      lastOp'.memory)
        /\ (\A k \in 1..Len(table) : table[k].roomId # lastOp'.room)
             => lastOp'.memory = <<>>)
     /\ (lastOp'.op = "append" =>
           \A r2 \in RoomIds \ {lastOp'.room} : store'[r2] = store[r2])]_vars

\* A page from the middle of a room's history was asked for, while another
\* room holds messages too.
C31_Witness ==
  /\ lastOp.op = "getHistory"
  /\ lastOp.room = "A" /\ lastOp.offset = 1 /\ lastOp.limit = 1
  /\ Len(store["A"]) = 2 /\ store["B"] # <<>>
  /\ lastOp.memory = <<store["A"][2]>>

\* C32: the in-memory store holds, for every room, the most recent
\* min(n, historyLimit) of the n messages appended to the room, in insertion
\* order: never more than historyLimit, and on overflow the oldest are dropped.
C32_Retention ==
  \A r \in RoomIds :
    LET all == WhereRoom(table, r)
    IN /\ Len(store[r]) <= StoreHistoryLimit
       /\ MemoryKeys(store[r]) = RowKeys(Latest(all, StoreHistoryLimit))

\* A room overflowed: more was appended to it than the store retains.
C32_Witness ==
  /\ lastOp.op = "append"
  /\ Len(WhereRoom(table, lastOp.room)) > StoreHistoryLimit
  /\ Len(store[lastOp.room]) = StoreHistoryLimit

\* C33 (as claimed): for the same appends and the same (limit, offset), the
\* in-memory store and the MySQL adapter return the same messages in the same
\* order.
C33_SameContract ==
  lastOp.op = "getHistory" =>
    MemoryKeys(lastOp.memory) = RowKeys(lastOp.mysql)

\* C34 (as claimed): a connection whose close has been handled is a member of
\* no Room, whatever operation of it was suspended (in identity resolution or
\* in the history fetch) when it closed; hence no room is kept in the registry
\* by a closed connection.
C34_ClosedNotMember ==
  \A c \in Conns :
    closed[c] => /\ RoomsOf(c) = {}
                 /\ \A r \in RoomIds :
                      registry[r] => DOMAIN connections[r] # {c}

\* C35 (as claimed): for every connection that is not closed and has no
\* suspended operation, currentRoomId is R exactly when the connection is in
\* the member map of the registry's room R, and null exactly when it is in no
\* room's map, for every room id, the empty string included.
C35_CurrentRoomAgrees ==
  \A c \in Conns :
    (~closed[c] /\ \A s \in Slots : pending[s].kind # "none" => pending[s].conn # c)
    => /\ \A r \in RoomIds :
            currentRoomId[c] = r <=> (registry[r] /\ c \in DOMAIN connections[r])
       /\ currentRoomId[c] = Null <=> RoomsOf(c) = {}

\* No operation is suspended and no frame is in flight.
Quiescent ==
  /\ link.up = <<>> /\ link.down = <<>>
  /\ \A s \in Slots : pending[s].kind = "none"

\* C36 (as claimed): in every quiescent state, for the session as a member of
\* room R, the entries of the other members in the session's presence map
\* have the key set and the presence documents of the server's member map of
\* R.
C36_PresenceConverges ==
  Quiescent =>
    \A r \in RoomIds :
      (SessionConn \in DOMAIN connections[r] /\ state.currentRoomId = r)
      => LET others == DOMAIN connections[r] \ {SessionConn}
         IN /\ DOMAIN state.presence \ {SessionConn} = others
            /\ \A d \in others :
                 state.presence[d].presence = connections[r][d].presence

\* C37 (as claimed): after the session's leaveRoom() of its current room, no
\* frame handled later (a room_joined still in flight included) puts the
\* session back into a room, and once every frame in flight has been
\* delivered the server has the connection in no room either.
C37_LeaveSticks ==
  link.left => /\ state.currentRoomId = Null
               /\ Quiescent => currentRoomId[SessionConn] = Null

\* C38 (as claimed): at most one of the WebSockets a session has created is
\* connecting or open at any time.
C38_OneSocket ==
  Cardinality({k \in Sockets : readyState[k] \in {"connecting", "open"}}) <= 1

\* C39 (as claimed): an update_presence of a member is dropped by the
\* throttle only if an earlier update_presence of that connection was applied
\* to a room entry less than presenceThrottleMs before; frames received while
\* in no room do not count.
C39_ThrottleWindow ==
  \A c \in Conns :
    (lastOp.op = "update_dropped" /\ lastOp.conn = c /\ RoomsOf(c) # {})
    => /\ appliedAt[c] # Never
       /\ now - appliedAt[c] < PresenceThrottleMs

\* C40 (as claimed): every frame of a step that carries a room id R reaches
\* only connections that are in R's member map when it is emitted, and an
\* error frame only the connection whose frame caused it.
C40_RoomIsolation ==
  \A k \in 1..Len(sent) :
    LET f == sent[k]
    IN f.wire =>
         /\ "roomId" \in DOMAIN f.msg
              => f.to \in DOMAIN connections[f.msg.roomId]
         /\ f.msg.type = "error" => f.to = lastOp.conn

====
